---- MODULE Spec2Model ----
(***************************************************************************)
(* Barnes-Hut n-body simulation: the arena quadtree of src/quadtree.rs,    *)
(* the systems of src/systems/core.rs and the boxed tree and               *)
(* step_simulation of src/main.rs.                                         *)
(*                                                                         *)
(* Numbers.  An f32 is modelled by the real number it stands for; rounding *)
(* is outside the model.  A real that the code obtains by +, -, *, / from  *)
(* the inputs is an exact rational <<n, d>> (d > 0, lowest terms).  The    *)
(* only other operation of the code is sqrt, and every sqrt ends up as the *)
(* divisor of a force: see the real vectors below.                         *)
(***************************************************************************)
EXTENDS Integers, Sequences, FiniteSets, TLC

(***************************************************************************)
(* Bounds of the model.                                                    *)
(***************************************************************************)
\* Bodies per rebuild.
MaxBodies == 3
\* Recursion depth after which insert_recursive is taken not to return.
MaxDepth == 6

(***************************************************************************)
(* Rational arithmetic (f32 +, -, *, /, comparisons).                      *)
(***************************************************************************)
Abs(x) == IF x < 0 THEN -x ELSE x

RECURSIVE GCD(_, _)
GCD(a, b) == IF b = 0 THEN a ELSE GCD(b, a % b)

Norm(n, d) ==
    LET g == GCD(Abs(n), Abs(d))
        s == IF d < 0 THEN -1 ELSE 1
    IN  <<(s * n) \div g, (s * d) \div g>>

R(n) == <<n, 1>>
Frac(n, d) == Norm(n, d)
RNeg(a) == <<-a[1], a[2]>>
\* Sums go over the least common denominator and products cancel crosswise
\* first, which keeps the intermediate integers small.
RAdd(a, b) ==
    LET g == GCD(a[2], b[2])
    IN  Norm(a[1] * (b[2] \div g) + b[1] * (a[2] \div g), (a[2] \div g) * b[2])
RSub(a, b) == RAdd(a, RNeg(b))
RMul(a, b) ==
    LET g1 == GCD(Abs(a[1]), b[2])
        g2 == GCD(Abs(b[1]), a[2])
    IN  Norm((a[1] \div g1) * (b[1] \div g2), (a[2] \div g2) * (b[2] \div g1))
RDiv(a, b) == RMul(a, Norm(b[2], b[1]))
\* a/b < c/d for b, d > 0, by continued fractions: no product is formed, so
\* the comparison stays inside the integers TLC can represent.
RECURSIVE CfLt(_, _, _, _)
CfLt(a, b, c, d) ==
    LET qa == a \div b
        qc == c \div d
        ra == a % b
        rc == c % d
    IN  IF qa # qc THEN qa < qc
        ELSE IF rc = 0 THEN FALSE
        ELSE IF ra = 0 THEN TRUE
        ELSE CfLt(d, rc, b, ra)

RLt(a, b) == CfLt(a[1], a[2], b[1], b[2])
RLe(a, b) == ~RLt(b, a)
RMax(a, b) == IF RLt(a, b) THEN b ELSE a
RMin(a, b) == IF RLt(b, a) THEN b ELSE a

(***************************************************************************)
(* Vec2.                                                                   *)
(***************************************************************************)
vec2(x, y) == <<x, y>>
V(x, y) == <<R(x), R(y)>>
ZERO == V(0, 0)
splat(r) == <<r, r>>
VAdd(a, b) == <<RAdd(a[1], b[1]), RAdd(a[2], b[2])>>
VSub(a, b) == <<RSub(a[1], b[1]), RSub(a[2], b[2])>>
VMul(a, r) == <<RMul(a[1], r), RMul(a[2], r)>>
VDiv(a, r) == <<RDiv(a[1], r), RDiv(a[2], r)>>
VMin(a, b) == <<RMin(a[1], b[1]), RMin(a[2], b[2])>>
VMax(a, b) == <<RMax(a[1], b[1]), RMax(a[2], b[2])>>
length_squared(a) == RAdd(RMul(a[1], a[1]), RMul(a[2], a[2]))

(***************************************************************************)
(* Program constants.                                                      *)
(***************************************************************************)
DEFAULT_G == 100
SOFTENING == 5
\* 0.0001: the merge threshold of insert_recursive (on a squared distance)
\* and the distance floor of calculate_force_recursive.
EPS == Frac(1, 10000)

(***************************************************************************)
(* Rect.                                                                   *)
(***************************************************************************)
Rect(center, size) == [center |-> center, size |-> size]

\* Mutant of get_quadrant_index: a point on a centre line counts as right
\* and as top.
get_quadrant_index_ge(rect, point) ==
    LET right == RLe(rect.center[1], point[1])
        top   == RLe(rect.center[2], point[2])
    IN  IF ~right /\ top THEN 0
        ELSE IF right /\ top THEN 1
        ELSE IF ~right /\ ~top THEN 2
        ELSE 3

get_quadrant_index(rect, point) ==
    LET right == RLt(rect.center[1], point[1])
        top   == RLt(rect.center[2], point[2])
    IN  IF ~right /\ top THEN 0
        ELSE IF right /\ top THEN 1
        ELSE IF ~right /\ ~top THEN 2
        ELSE 3

\* Mutant of sub_quadrant: the centre is not moved.
sub_quadrant_unshifted(rect, index) == Rect(rect.center, VDiv(rect.size, R(2)))

\* Mutant of sub_quadrant: the upper quadrants get the lower centres and the
\* lower quadrants the upper ones.
sub_quadrant_flipped(rect, index) ==
    LET quarter_size == VDiv(rect.size, R(2))
        offset == VDiv(quarter_size, R(2))
        center ==
            CASE index = 0 -> VAdd(rect.center, vec2(RNeg(offset[1]), RNeg(offset[2])))
              [] index = 1 -> VAdd(rect.center, vec2(offset[1], RNeg(offset[2])))
              [] index = 2 -> VAdd(rect.center, vec2(RNeg(offset[1]), offset[2]))
              [] index = 3 -> VAdd(rect.center, vec2(offset[1], offset[2]))
              [] OTHER -> rect.center
    IN  Rect(center, quarter_size)

sub_quadrant(rect, index) ==
    LET quarter_size == VDiv(rect.size, R(2))
        offset == VDiv(quarter_size, R(2))
        center ==
            CASE index = 0 -> VAdd(rect.center, vec2(RNeg(offset[1]), offset[2]))
              [] index = 1 -> VAdd(rect.center, vec2(offset[1], offset[2]))
              [] index = 2 -> VAdd(rect.center, vec2(RNeg(offset[1]), RNeg(offset[2])))
              [] index = 3 -> VAdd(rect.center, vec2(offset[1], RNeg(offset[2])))
              [] OTHER -> rect.center
    IN  Rect(center, quarter_size)

(***************************************************************************)
(* NodeKind and Node.  Option<usize> is an index or None.                  *)
(***************************************************************************)
None == -1

Empty == [tag |-> "Empty"]
Leaf(entity, position) == [tag |-> "Leaf", entity |-> entity, position |-> position]
Internal(children) == [tag |-> "Internal", children |-> children]

Node(bounds, center_of_mass, mass, kind) ==
    [bounds |-> bounds, center_of_mass |-> center_of_mass, mass |-> mass, kind |-> kind]

\* Node::empty
empty(bounds) == Node(bounds, ZERO, R(0), Empty)

\* The arena is a Vec<Node>: index i of the code is element i + 1 here.
At(ns, i) == ns[i + 1]
Put(ns, i, node) == [ns EXCEPT ![i + 1] = node]

(***************************************************************************)
(* QuadTreeResource::subdivide: four Empty children pushed in quadrant     *)
(* order; returns the arena and the children array.                        *)
(***************************************************************************)
\* Mutant of subdivide: the last slot names the third child again.
subdivideOverlaps(ns, index) ==
    LET b == At(ns, index).bounds
        n == Len(ns)
    IN  [nodes |-> ns \o <<empty(sub_quadrant(b, 0)), empty(sub_quadrant(b, 1)),
                           empty(sub_quadrant(b, 2)), empty(sub_quadrant(b, 3))>>,
         children |-> <<n, n + 1, n + 2, n + 2>>]

\* Mutant of subdivide: the children are pushed in the reverse quadrant
\* order.
subdivideReversed(ns, index) ==
    LET b == At(ns, index).bounds
        n == Len(ns)
    IN  [nodes |-> ns \o <<empty(sub_quadrant(b, 3)), empty(sub_quadrant(b, 2)),
                           empty(sub_quadrant(b, 1)), empty(sub_quadrant(b, 0))>>,
         children |-> <<n, n + 1, n + 2, n + 3>>]

subdivide(ns, index) ==
    LET b == At(ns, index).bounds
        n == Len(ns)
    IN  [nodes |-> ns \o <<empty(sub_quadrant(b, 0)), empty(sub_quadrant(b, 1)),
                           empty(sub_quadrant(b, 2)), empty(sub_quadrant(b, 3))>>,
         children |-> <<n, n + 1, n + 2, n + 3>>]

(***************************************************************************)
(* QuadTreeResource::insert_recursive.  The result is [ok, nodes]: ok is   *)
(* FALSE when the recursion passes MaxDepth, which stands for a recursion  *)
(* that never returns (the call overflows the stack).                      *)
(***************************************************************************)
\* Mutant of Merged: the merged leaf keeps its old mass.
MergedKeepsMass(node, existing_position, position, mass) ==
    [node EXCEPT !.center_of_mass =
        VDiv(VAdd(VMul(existing_position, node.mass), VMul(position, mass)),
             RAdd(node.mass, mass))]

\* Mutant of Merged: the leaf takes the position of the body merged in.
MergedMovesLeaf(node, existing_position, position, mass) ==
    [node EXCEPT !.mass = RAdd(node.mass, mass),
                 !.center_of_mass =
                    VDiv(VAdd(VMul(existing_position, node.mass),
                              VMul(position, mass)), RAdd(node.mass, mass)),
                 !.kind.position = position]

Merged(node, existing_position, position, mass) ==
    LET existing_mass == node.mass
        total_mass == RAdd(existing_mass, mass)
    IN  [node EXCEPT !.mass = total_mass,
                     !.center_of_mass =
                        VDiv(VAdd(VMul(existing_position, existing_mass),
                                  VMul(position, mass)), total_mass)]

\* Mutant of Split: the mass of the new body is left out.
SplitKeepsOldMass(node, children, existing_position, existing_mass, position, mass) ==
    Node(node.bounds,
         VDiv(VAdd(VMul(existing_position, existing_mass), VMul(position, mass)),
              RAdd(existing_mass, mass)),
         existing_mass, Internal(children))

\* Mutant of Split: the subdivided node shrinks to its first quadrant.
SplitShrinks(node, children, existing_position, existing_mass, position, mass) ==
    Node(sub_quadrant(node.bounds, 0),
         VDiv(VAdd(VMul(existing_position, existing_mass), VMul(position, mass)),
              RAdd(existing_mass, mass)),
         RAdd(existing_mass, mass), Internal(children))

\* Lines 140-145: the aggregate of a leaf that has just been subdivided.
Split(node, children, existing_position, existing_mass, position, mass) ==
    LET total_mass == RAdd(existing_mass, mass)
        com == VDiv(VAdd(VMul(existing_position, existing_mass),
                         VMul(position, mass)), total_mass)
    IN  Node(node.bounds, com, total_mass, Internal(children))

\* Mutant of Fold: the new body's mass is not added to the node's.
FoldForgetsMass(node, children, position, mass) ==
    Node(node.bounds,
         VDiv(VAdd(VMul(node.center_of_mass, node.mass), VMul(position, mass)),
              RAdd(node.mass, mass)),
         node.mass, Internal(children))

\* Mutant of Fold: the centre of mass is the plain mean of old and new.
FoldUnweighted(node, children, position, mass) ==
    Node(node.bounds, VDiv(VAdd(node.center_of_mass, position), R(2)),
         RAdd(node.mass, mass), Internal(children))

\* Lines 155-161: an Internal node folds the new body in on the way back up.
Fold(node, children, position, mass) ==
    LET total_mass == RAdd(node.mass, mass)
        com == VDiv(VAdd(VMul(node.center_of_mass, node.mass),
                         VMul(position, mass)), total_mass)
    IN  Node(node.bounds, com, total_mass, Internal(children))

\* Line 111: the two positions count as the same location.
SameLocation(existing_position, position) ==
    RLt(length_squared(VSub(existing_position, position)), EPS)

\* The caller's remaining statements run only once the recursive call has
\* returned: the node at index is written when r is a finished insert.
Written(r, index, node) ==
    IF r.ok THEN [ok |-> TRUE, nodes |-> Put(r.nodes, index, node)] ELSE r

\* Lines 155-161 read the node again after the recursive call.
Folded(r, index, children, position, mass) ==
    IF r.ok
    THEN [ok |-> TRUE,
          nodes |-> Put(r.nodes, index,
                        Fold(At(r.nodes, index), children, position, mass))]
    ELSE r

RECURSIVE insert_recursive(_, _, _, _, _, _)
\* Lines 137-138: the second of the two re-inserts after a subdivision.
Reinsert(r, index, entity, position, mass, depth) ==
    IF r.ok
    THEN insert_recursive(r.nodes, index, entity, position, mass, depth)
    ELSE r

\* Lines 120-146: a Leaf at another location is subdivided and both bodies
\* are inserted below it.
SplitLeaf(ns, index, entity, position, mass, depth) ==
    LET node == At(ns, index)
        sub == subdivide(ns, index)
        existing_index == get_quadrant_index(node.bounds, node.kind.position)
        new_index == get_quadrant_index(node.bounds, position)
    IN  Written(
            Reinsert(
                insert_recursive(sub.nodes, sub.children[existing_index + 1],
                                 node.kind.entity, node.kind.position,
                                 node.mass, depth + 1),
                sub.children[new_index + 1], entity, position, mass, depth + 1),
            index,
            Split(node, sub.children, node.kind.position, node.mass,
                  position, mass))

\* Lines 147-162: an Internal node hands the body to the child of its
\* quadrant, then folds it into its own aggregate.
Descend(ns, index, entity, position, mass, depth) ==
    LET node == At(ns, index)
        child == node.kind.children[get_quadrant_index(node.bounds, position) + 1]
    IN  Folded(IF child # None
               THEN insert_recursive(ns, child, entity, position, mass, depth + 1)
               ELSE [ok |-> TRUE, nodes |-> ns],
               index, node.kind.children, position, mass)

insert_recursive(ns, index, entity, position, mass, depth) ==
    IF depth > MaxDepth THEN [ok |-> FALSE, nodes |-> ns]
    ELSE
    CASE At(ns, index).kind.tag = "Empty" ->
            [ok |-> TRUE,
             nodes |-> Put(ns, index,
                           Node(At(ns, index).bounds, position, mass,
                                Leaf(entity, position)))]
      [] At(ns, index).kind.tag = "Leaf" ->
            IF SameLocation(At(ns, index).kind.position, position)
            THEN [ok |-> TRUE,
                  nodes |-> Put(ns, index,
                                Merged(At(ns, index), At(ns, index).kind.position,
                                       position, mass))]
            ELSE SplitLeaf(ns, index, entity, position, mass, depth)
      [] At(ns, index).kind.tag = "Internal" ->
            Descend(ns, index, entity, position, mass, depth)

(***************************************************************************)
(* Real vectors that are not rational.  The last line of both force        *)
(* formulas is  delta / dist * force_mag  with dist a square root and      *)
(* force_mag = (g * mass) / dist_sq.  The model keeps such a product as    *)
(* the term [delta, dist2, num, dist_sq], whose value is                   *)
(*      delta / sqrt(dist2) * (num / dist_sq)                              *)
(* with delta, dist2 = dist * dist, num and dist_sq rational; num starts   *)
(* as g * mass and takes every later scaling of the vector.  A real vector *)
(* is a rational vector plus a set of terms (their sum).  Terms that       *)
(* differ in num only are added up and a term of value zero is dropped,    *)
(* so equal records stand for equal vectors.                               *)
(***************************************************************************)
Term(delta, dist2, num, dist_sq) ==
    IF delta = ZERO \/ num = R(0) THEN {}
    ELSE {[delta |-> delta, dist2 |-> dist2, num |-> num, dist_sq |-> dist_sq]}

Key(t) == <<t.delta, t.dist2, t.dist_sq>>

NumAt(f, k) ==
    IF \E t \in f : Key(t) = k
    THEN (CHOOSE t \in f : Key(t) = k).num
    ELSE R(0)

TAdd(f, g) ==
    UNION {Term(k[1], k[2], RAdd(NumAt(f, k), NumAt(g, k)), k[3]) :
             k \in {Key(t) : t \in f \cup g}}

TMul(f, r) == UNION {Term(t.delta, t.dist2, RMul(t.num, r), t.dist_sq) : t \in f}

SV(rat, surd) == [rat |-> rat, surd |-> surd]
SZero == SV(ZERO, {})
OfVec(v) == SV(v, {})
SAdd(a, b) == SV(VAdd(a.rat, b.rat), TAdd(a.surd, b.surd))
SMul(a, r) == SV(VMul(a.rat, r), TMul(a.surd, r))
SDiv(a, r) == SMul(a, RDiv(R(1), r))

(***************************************************************************)
(* SimConfig.                                                              *)
(***************************************************************************)
SimConfig(g, theta, dt) == [g |-> g, theta |-> theta, dt |-> dt]
DEFAULT_THETA == Frac(1, 2)
DEFAULT_DT == Frac(1, 60)
DefaultConfig == SimConfig(R(DEFAULT_G), DEFAULT_THETA, DEFAULT_DT)

\* SimSettings: the two fields that the systems of the simulation read.
SimSettings(time_scale, enable_culling) ==
    [time_scale |-> time_scale, enable_culling |-> enable_culling]
DefaultSettings == SimSettings(R(1), FALSE)

(***************************************************************************)
(* QuadTreeResource::calculate_force_recursive.                            *)
(***************************************************************************)
\* Mutant of LeafForce: delta is divided by its own length.
LeafForceUnit(pos, mass, position, config) ==
    LET delta == VSub(pos, position)
        dist_sq == RAdd(length_squared(delta), R(SOFTENING * SOFTENING))
    IN  SV(ZERO, Term(delta, length_squared(delta), RMul(config.g, mass), dist_sq))

\* Lines 209-213: delta / dist * force_mag with dist = sqrt(dist_sq).
LeafForce(pos, mass, position, config) ==
    LET delta == VSub(pos, position)
        dist_sq == RAdd(length_squared(delta), R(SOFTENING * SOFTENING))
    IN  SV(ZERO, Term(delta, dist_sq, RMul(config.g, mass), dist_sq))

\* Mutant of DistSquared: the distance has no floor.
DistSquaredNoFloor(delta) == length_squared(delta)

\* Line 217: the square of dist = delta.length().max(0.0001).
DistSquared(delta) == RMax(length_squared(delta), RMul(EPS, EPS))

\* Mutant of Accepts: the comparison the other way round.
AcceptsInverted(width, d2, theta) ==
    RLt(RMul(RMul(theta, theta), d2), RMul(width, width))

\* Line 220: width / dist < theta, for dist = sqrt(d2) > 0, decided on squares.
Accepts(width, d2, theta) ==
    LET w2 == RMul(width, width)
        t2d2 == RMul(RMul(theta, theta), d2)
    IN  IF RLt(width, R(0))
        THEN (RLe(R(0), theta) \/ RLt(t2d2, w2))
        ELSE (RLt(R(0), theta) /\ RLt(w2, t2d2))

\* Lines 222-224: delta / dist * force_mag with dist the floored distance.
ApproxForce(node, position, config) ==
    LET delta == VSub(node.center_of_mass, position)
    IN  IF delta = ZERO THEN SZero
        ELSE
        LET d2 == DistSquared(delta)
            dist_sq == RAdd(d2, R(SOFTENING * SOFTENING))
        IN  SV(ZERO, Term(delta, d2, RMul(config.g, node.mass), dist_sq))

RECURSIVE calculate_force_recursive(_, _, _, _, _)
calculate_force_recursive(ns, index, target, position, config) ==
    LET node == At(ns, index)
    IN
    CASE node.kind.tag = "Empty" -> SZero
      [] node.kind.tag = "Leaf" ->
            IF node.kind.entity = target
            THEN SZero
            ELSE LeafForce(node.kind.position, node.mass, position, config)
      [] node.kind.tag = "Internal" ->
            LET delta == VSub(node.center_of_mass, position)
                width == node.bounds.size[1]
                children == node.kind.children
                sub(k) == IF children[k] = None THEN SZero
                          ELSE calculate_force_recursive(ns, children[k], target,
                                                         position, config)
            IN  IF Accepts(width, DistSquared(delta), config.theta)
                THEN ApproxForce(node, position, config)
                ELSE SAdd(SAdd(SAdd(sub(1), sub(2)), sub(3)), sub(4))

\* The divisors of calculate_force_recursive, along the same traversal: at a
\* Leaf dist_sq (line 212) and dist (line 213); at an Internal node dist
\* (lines 220 and 224) and, once the node is accepted, dist_sq (line 223).
\* dist is a square root and is given by its square.
RECURSIVE Divisors(_, _, _, _, _)
Divisors(ns, index, target, position, config) ==
    LET node == At(ns, index)
    IN
    CASE node.kind.tag = "Empty" -> {}
      [] node.kind.tag = "Leaf" ->
            IF node.kind.entity = target THEN {}
            ELSE LET delta == VSub(node.kind.position, position)
                     dist_sq == RAdd(length_squared(delta), R(SOFTENING * SOFTENING))
                 IN  {[name |-> "dist_sq", value |-> dist_sq],
                      [name |-> "dist", squared |-> dist_sq]}
      [] node.kind.tag = "Internal" ->
            LET delta == VSub(node.center_of_mass, position)
                d2 == DistSquared(delta)
            IN  {[name |-> "dist", squared |-> d2]} \cup
                IF Accepts(node.bounds.size[1], d2, config.theta)
                THEN {[name |-> "dist_sq",
                       value |-> RAdd(d2, R(SOFTENING * SOFTENING))]}
                ELSE UNION {Divisors(ns, c, target, position, config) :
                              c \in {node.kind.children[k] : k \in 1..4} \ {None}}

\* QuadTreeResource::calculate_force
calculate_force(ns, rt, target, position, config) ==
    IF rt = None THEN SZero
    ELSE calculate_force_recursive(ns, rt, target, position, config)

(***************************************************************************)
(* Inputs.                                                                 *)
(***************************************************************************)
\* Root bounds handed to reset: the square of the tests, and a square that
\* leaves most of the positions below outside.
BoundsInputs == {Rect(V(0, 0), splat(R(10))), Rect(V(-2, -2), splat(R(4)))}

\* (position, mass) of the bodies handed to insert.  <<201/200, 1>> is within
\* squared distance 1e-4 of <<1, 1>> without being equal to it.
Near == <<Frac(201, 200), R(1)>>
Corner == <<Frac(9, 2), Frac(9, 2)>>
\* <<1/200, 0>> is within squared distance 1e-4 of the origin, on the other
\* side of the centre line x = 0.
Beside == <<Frac(1, 200), R(0)>>
BodyInputs ==
    {[position |-> V(0, 0), mass |-> R(1)],
     [position |-> V(3, 0), mass |-> R(2)],
     [position |-> V(1, 1), mass |-> R(2)],
     [position |-> V(1, 1), mass |-> R(3)],
     [position |-> Near, mass |-> R(1)],
     [position |-> Beside, mass |-> R(1)],
     [position |-> Corner, mass |-> R(4)],
     [position |-> VMul(Corner, R(-1)), mass |-> R(1)]}

ThetaInputs == {R(0), Frac(1, 2), R(1)}

\* An entity that is no body of the tree (the tests query with it).
Stranger == 99

(***************************************************************************)
(* State.                                                                  *)
(***************************************************************************)
VARIABLES
    nodes,      \* QuadTreeResource.nodes
    root,       \* QuadTreeResource.root
    origin,     \* how the arena was made: "default", "reset" or "fixture"
    inserted,   \* the bodies handed to insert since the arena was made
    aborted,    \* an insert did not return
    query,      \* the calculate_force call in progress, or NoQuery
    force,      \* what that call returns
    world,      \* the bodies: entity e is world[e], with its components
    pc,         \* where the driver of the bodies stands
    tasks,      \* the per-body evaluations of the running par_iter_mut
    tree,       \* main.rs: the Quadtree of the running step_simulation
    bodies_snapshot, \* main.rs: step_simulation's snapshot
    cursor,     \* the next element of the sequential loop that is running
    sim_bounds, \* SimulationBounds.root
    sim_config, \* SimConfig
    settings,   \* SimSettings
    ticks       \* integrations so far

treeVars == <<nodes, root, origin, inserted, aborted>>
queryVars == <<query, force>>
driverVars ==
    <<world, pc, tasks, tree, bodies_snapshot, cursor, sim_bounds, sim_config, settings, ticks>>
vars ==
    <<nodes, root, origin, inserted, aborted, query, force, world, pc, tasks,
      tree, bodies_snapshot, cursor, sim_bounds, sim_config, settings, ticks>>

NoQuery == [active |-> FALSE]

\* QuadTreeResource::default()
InitTree ==
    /\ nodes = <<>>
    /\ root = None
    /\ origin = "default"
    /\ inserted = <<>>
    /\ aborted = FALSE

\* A Quadtree before Quadtree::new has run: no node, no region.
NoTree == [root |-> Empty, bounds |-> Rect(ZERO, splat(R(0)))]

\* No body and no driver: the arena is used through its own methods.
InitNoDriver ==
    /\ world = <<>>
    /\ pc = "api"
    /\ tasks = <<>>
    /\ tree = NoTree
    /\ bodies_snapshot = <<>>
    /\ cursor = 0
    /\ sim_bounds = Rect(ZERO, splat(R(0)))
    /\ sim_config = DefaultConfig
    /\ settings = DefaultSettings
    /\ ticks = 0

Init ==
    /\ InitTree
    /\ query = NoQuery
    /\ force = SZero
    /\ InitNoDriver

\* Mutant of reset: the arena is not cleared before the root is pushed.
resetAppends(bounds) ==
    /\ ~aborted /\ ~query.active
    /\ nodes' = Append(nodes, empty(bounds))
    /\ root' = Len(nodes)
    /\ origin' = "reset"
    /\ inserted' = <<>>
    /\ UNCHANGED <<aborted, query, force>>
    /\ UNCHANGED driverVars

\* QuadTreeResource::reset
reset(bounds) ==
    /\ ~aborted /\ ~query.active
    /\ nodes' = <<empty(bounds)>>
    /\ root' = 0
    /\ origin' = "reset"
    /\ inserted' = <<>>
    /\ UNCHANGED <<aborted, query, force>>
    /\ UNCHANGED driverVars

\* Mutant of InsertWithoutRoot: the body becomes the root of the arena.
InsertMakesRoot(entity, position, mass) ==
    /\ nodes' = <<Node(Rect(position, splat(R(1))), position, mass,
                       Leaf(entity, position))>>
    /\ root' = 0
    /\ inserted' = Append(inserted, [entity |-> entity, position |-> position,
                                     mass |-> mass])
    /\ UNCHANGED <<origin, aborted>>

\* Lines 90-93: without a root the call returns at once.
InsertWithoutRoot(entity, position, mass) ==
    /\ inserted' = Append(inserted, [entity |-> entity, position |-> position,
                                     mass |-> mass])
    /\ UNCHANGED <<nodes, root, origin, aborted>>

\* QuadTreeResource::insert.  (The tests that build an arena by hand only
\* query it: the model inserts into arenas made by default() or reset.)
insert(entity, position, mass) ==
    /\ ~aborted /\ ~query.active
    /\ origin # "fixture"
    /\ Len(inserted) < MaxBodies
    /\ IF root = None
       THEN InsertWithoutRoot(entity, position, mass)
       ELSE LET r == insert_recursive(nodes, root, entity, position, mass, 0)
            IN  IF r.ok
                THEN /\ nodes' = r.nodes
                     /\ inserted' = Append(inserted, [entity |-> entity,
                                                      position |-> position,
                                                      mass |-> mass])
                     /\ UNCHANGED <<root, origin, aborted>>
                ELSE /\ aborted' = TRUE
                     /\ UNCHANGED <<nodes, root, origin, inserted>>
    /\ UNCHANGED queryVars
    /\ UNCHANGED driverVars

Insert == \E b \in BodyInputs : insert(Len(inserted) + 1, b.position, b.mass)

Reset == \E b \in BoundsInputs : reset(b)

\* tests::calculate_force_uses_approximation_for_distant_nodes builds its
\* arena by hand: one Internal node without children.
FixtureDistant ==
    /\ origin = "default" /\ ~query.active
    /\ nodes' = <<Node(Rect(ZERO, splat(R(10))), V(50, 0), R(8),
                       Internal(<<None, None, None, None>>))>>
    /\ root' = 0
    /\ origin' = "fixture"
    /\ inserted' = <<>>
    /\ UNCHANGED <<aborted, query, force>>
    /\ UNCHANGED driverVars

\* tests::calculate_force_recurses_into_children: an Internal root with two
\* Leaf children and two absent ones.
FixtureChildren ==
    LET bounds == Rect(ZERO, splat(R(20)))
        child_a == Node(sub_quadrant(bounds, 1), V(5, 0), R(2), Leaf(1, V(5, 0)))
        child_b == Node(sub_quadrant(bounds, 0), V(-5, 0), R(3), Leaf(2, V(-5, 0)))
    IN  /\ origin = "default" /\ ~query.active
        /\ nodes' = <<Node(bounds, ZERO, RAdd(child_a.mass, child_b.mass),
                           Internal(<<2, 1, None, None>>)),
                      child_a, child_b>>
        /\ root' = 0
        /\ origin' = "fixture"
        /\ inserted' = <<>>
        /\ UNCHANGED <<aborted, query, force>>
        /\ UNCHANGED driverVars

\* A caller of calculate_force: the target is a body handed to insert, the
\* entity of a leaf or a stranger; the position is that of such a body or
\* leaf, or the origin.
Bodies == {inserted[i] : i \in 1..Len(inserted)}
LeafNodes == {nodes[i] : i \in {j \in 1..Len(nodes) : nodes[j].kind.tag = "Leaf"}}
QueryTargets ==
    {b.entity : b \in Bodies} \cup {n.kind.entity : n \in LeafNodes} \cup {Stranger}
QueryPositions ==
    {b.position : b \in Bodies} \cup {n.kind.position : n \in LeafNodes} \cup {ZERO}

CalculateForce ==
    /\ ~aborted /\ ~query.active
    /\ \E target \in QueryTargets, position \in QueryPositions, theta \in ThetaInputs :
         LET config == SimConfig(R(DEFAULT_G), theta, DEFAULT_DT)
         IN  /\ query' = [active |-> TRUE, target |-> target,
                          position |-> position, config |-> config]
             /\ force' = calculate_force(nodes, root, target, position, config)
    /\ UNCHANGED treeVars
    /\ UNCHANGED driverVars

\* The caller has used the returned force.
Return ==
    /\ query.active
    /\ query' = NoQuery
    /\ force' = SZero
    /\ UNCHANGED treeVars
    /\ UNCHANGED driverVars

Next ==
    \/ Reset
    \/ Insert
    \/ CalculateForce
    \/ Return
    \/ FixtureDistant
    \/ FixtureChildren

Spec == Init /\ [][Next]_vars

(***************************************************************************)
(* What the claims speak of.                                               *)
(***************************************************************************)
Indices(ns) == 0..(Len(ns) - 1)
IsLeaf(n) == n.kind.tag = "Leaf"
IsInternal(n) == n.kind.tag = "Internal"
IsEmpty(n) == n.kind.tag = "Empty"
Present(n) == {n.kind.children[k] : k \in 1..4} \ {None}

\* The Leaf nodes reachable from node i.
RECURSIVE LeavesUnder(_, _)
LeavesUnder(ns, i) ==
    IF IsLeaf(At(ns, i)) THEN {i}
    ELSE IF IsInternal(At(ns, i))
         THEN UNION {LeavesUnder(ns, c) : c \in Present(At(ns, i))}
         ELSE {}

\* Sum of the masses, and of mass * stored position, of the leaves in S.
RECURSIVE LeafMass(_, _)
LeafMass(ns, S) ==
    IF S = {} THEN R(0)
    ELSE LET i == CHOOSE x \in S : TRUE
         IN  RAdd(At(ns, i).mass, LeafMass(ns, S \ {i}))

RECURSIVE LeafMoment(_, _)
LeafMoment(ns, S) ==
    IF S = {} THEN ZERO
    ELSE LET i == CHOOSE x \in S : TRUE
         IN  VAdd(VMul(At(ns, i).kind.position, At(ns, i).mass),
                  LeafMoment(ns, S \ {i}))

\* Sum of the masses, and of mass * position, of a set of bodies.
RECURSIVE BodyMass(_)
BodyMass(S) ==
    IF S = {} THEN R(0)
    ELSE LET b == CHOOSE x \in S : TRUE
         IN  RAdd(b.mass, BodyMass(S \ {b}))

RECURSIVE BodyMoment(_)
BodyMoment(S) ==
    IF S = {} THEN ZERO
    ELSE LET b == CHOOSE x \in S : TRUE
         IN  VAdd(VMul(b.position, b.mass), BodyMoment(S \ {b}))

\* Two bodies at different positions that insert treats as one location.
NearDistinct(a, b) ==
    a.position # b.position /\ SameLocation(a.position, b.position)
SomeNearDistinct == \E a \in Bodies, b \in Bodies : NearDistinct(a, b)

\* reset(bounds) followed by the inserts of seq, in order.
RECURSIVE BuildFrom(_, _, _)
BuildFrom(r, seq, k) ==
    IF k > Len(seq) \/ ~r.ok THEN r
    ELSE BuildFrom(insert_recursive(r.nodes, 0, seq[k].entity, seq[k].position,
                                    seq[k].mass, 0), seq, k + 1)
Build(bounds, seq) == BuildFrom([ok |-> TRUE, nodes |-> <<empty(bounds)>>], seq, 1)

Built == origin = "reset" /\ ~aborted

(***************************************************************************)
(* main.rs: the boxed tree.  Rect, get_quadrant_index and sub_quadrant of  *)
(* main.rs are those of quadtree.rs, statement for statement.              *)
(***************************************************************************)
G_CONSTANT == 100
THETA == Frac(1, 2)
SIMULATION_STEP == Frac(1, 60)

BhEmpty == [tag |-> "Empty"]
BhLeaf(entity, pos, mass) ==
    [tag |-> "Leaf", entity |-> entity, pos |-> pos, mass |-> mass]
BhInternal(children, center_of_mass, total_mass) ==
    [tag |-> "Internal", children |-> children,
     center_of_mass |-> center_of_mass, total_mass |-> total_mass]
EmptyChildren == <<BhEmpty, BhEmpty, BhEmpty, BhEmpty>>

\* BhNode::insert, with self passed in and the new node returned.
RECURSIVE BhNode_insert(_, _, _, _, _)
\* children[idx].insert(entity, pos, mass, bounds.sub_quadrant(idx))
InsertChild(children, idx, entity, pos, mass, bounds) ==
    [children EXCEPT ![idx + 1] =
        BhNode_insert(children[idx + 1], entity, pos, mass,
                      sub_quadrant(bounds, idx))]

BhNode_insert(self, entity, pos, mass, bounds) ==
    CASE self.tag = "Empty" -> BhLeaf(entity, pos, mass)
      [] self.tag = "Leaf" ->
            IF RLt(length_squared(VSub(self.pos, pos)), EPS)
            THEN self
            ELSE BhInternal(
                    InsertChild(
                        InsertChild(EmptyChildren,
                                    get_quadrant_index(bounds, self.pos),
                                    self.entity, self.pos, self.mass, bounds),
                        get_quadrant_index(bounds, pos), entity, pos, mass, bounds),
                    VDiv(VAdd(VMul(self.pos, self.mass), VMul(pos, mass)),
                         RAdd(self.mass, mass)),
                    RAdd(self.mass, mass))
      [] self.tag = "Internal" ->
            BhInternal(
                InsertChild(self.children, get_quadrant_index(bounds, pos),
                            entity, pos, mass, bounds),
                VDiv(VAdd(VMul(self.center_of_mass, self.total_mass),
                          VMul(pos, mass)),
                     RAdd(self.total_mass, mass)),
                RAdd(self.total_mass, mass))

\* Quadtree::new, lines 224-237: the padded square around the bodies.
RECURSIVE MinOver(_, _, _)
MinOver(bodies, k, acc) ==
    IF k > Len(bodies) THEN acc
    ELSE MinOver(bodies, k + 1, VMin(acc, bodies[k].position))
RECURSIVE MaxOver(_, _, _)
MaxOver(bodies, k, acc) ==
    IF k > Len(bodies) THEN acc
    ELSE MaxOver(bodies, k + 1, VMax(acc, bodies[k].position))

SnapshotBounds(bodies) ==
    IF bodies = <<>> THEN Rect(ZERO, splat(R(1)))
    ELSE LET min == MinOver(bodies, 1, bodies[1].position)
             max == MaxOver(bodies, 1, bodies[1].position)
             size == VSub(max, min)
             max_dim == RMul(RMax(RMax(size[1], size[2]), R(1)), Frac(11, 10))
         IN  Rect(VDiv(VAdd(min, max), R(2)), splat(max_dim))

\* Quadtree::new, lines 239-245: the first k - 1 bodies inserted into root.
RECURSIVE InsertedUpTo(_, _, _)
InsertedUpTo(bodies, k, bounds) ==
    IF k <= 1 THEN BhEmpty
    ELSE BhNode_insert(InsertedUpTo(bodies, k - 1, bounds), bodies[k - 1].entity,
                       bodies[k - 1].position, bodies[k - 1].mass, bounds)

Quadtree_new(bodies) ==
    [root |-> InsertedUpTo(bodies, Len(bodies) + 1, SnapshotBounds(bodies)),
     bounds |-> SnapshotBounds(bodies)]

\* Quadtree::calculate_force_recursive of main.rs: dist has no floor, so a
\* centre of mass at the point makes width / dist infinite and is opened.
MainConfig == SimConfig(R(G_CONSTANT), THETA, SIMULATION_STEP)

BhApprox(center_of_mass, total_mass, point) ==
    LET delta == VSub(center_of_mass, point)
        d2 == length_squared(delta)
    IN  SV(ZERO, Term(delta, d2, RMul(R(G_CONSTANT), total_mass),
                      RAdd(d2, R(SOFTENING * SOFTENING))))

RECURSIVE Bh_calculate_force_recursive(_, _, _, _)
BhChild(node, bounds, i, point, target_entity) ==
    Bh_calculate_force_recursive(node.children[i + 1], sub_quadrant(bounds, i),
                                 point, target_entity)

Bh_calculate_force_recursive(node, bounds, point, target_entity) ==
    CASE node.tag = "Empty" -> SZero
      [] node.tag = "Leaf" ->
            IF node.entity = target_entity THEN SZero
            ELSE LeafForce(node.pos, node.mass, point, MainConfig)
      [] node.tag = "Internal" ->
            IF /\ node.center_of_mass # point
               /\ Accepts(bounds.size[1],
                          length_squared(VSub(node.center_of_mass, point)), THETA)
            THEN BhApprox(node.center_of_mass, node.total_mass, point)
            ELSE SAdd(SAdd(SAdd(BhChild(node, bounds, 0, point, target_entity),
                                BhChild(node, bounds, 1, point, target_entity)),
                           BhChild(node, bounds, 2, point, target_entity)),
                      BhChild(node, bounds, 3, point, target_entity))

Bh_calculate_force(t, point, target_entity) ==
    Bh_calculate_force_recursive(t.root, t.bounds, point, target_entity)

(***************************************************************************)
(* The bodies.  Positions, velocities and accelerations are real vectors;  *)
(* a tree can be built, and a force evaluated, only from positions that    *)
(* are rational, so a driver starts a tick only while they are: once a     *)
(* body has moved under a force with a square root in it, the behaviour    *)
(* ends with the integration of that tick.                                 *)
(***************************************************************************)
MaxTicks == 2

Body(position, velocity, mass) ==
    [position |-> OfVec(position), velocity |-> OfVec(velocity),
     acceleration |-> SZero, mass |-> mass]

\* Worlds a run starts from: the two bodies of
\* tests::calculate_forces_sets_acceleration_from_quadtree, those of
\* tests::reset_and_build_tree_updates_bounds_and_root, three bodies of
\* which one moves, two bodies closer than 0.01, one body alone, a pair
\* seen from far away, two bodies closer than 0.01 with a third between
\* their inserts, and two worlds with a body beyond the culling
\* distance.  Bodies beyond it come last in a world, so that the bodies
\* that stay keep their place in the sequence when those are despawned.
WorldInputs ==
    { <<Body(V(0, 0), ZERO, R(1)), Body(V(3, 0), ZERO, R(2))>>,
      <<Body(V(-10, -5), ZERO, R(2)), Body(V(20, 15), ZERO, R(3))>>,
      <<Body(V(0, 0), V(6, 0), R(1)), Body(V(3, 0), ZERO, R(2)),
        Body(V(1, 1), ZERO, R(2))>>,
      <<Body(V(1, 1), ZERO, R(2)), Body(Near, ZERO, R(1))>>,
      <<Body(V(0, 0), V(6, 0), R(1))>>,
      <<Body(V(0, 0), ZERO, R(1)), Body(V(1, 1), ZERO, R(2)),
        Body(V(40, 0), ZERO, R(3))>>,
      <<Body(V(1, 1), ZERO, R(2)), Body(V(3, 0), ZERO, R(2)),
        Body(Near, ZERO, R(1))>>,
      <<Body(V(2000, 0), ZERO, R(1))>>,
      <<Body(V(0, 0), ZERO, R(1)), Body(V(2000, 0), ZERO, R(2))>> }

Entities == 1..Len(world)
Rational(v) == v.surd = {}
AllRational == \A e \in Entities : Rational(world[e].position)

\* (entity, position, mass) of every body, in iteration order.
Snapshot(w) ==
    [e \in 1..Len(w) |->
        [entity |-> e, position |-> w[e].position.rat, mass |-> w[e].mass]]

Ready == [state |-> "ready", force |-> SZero]
AllDone == \A e \in Entities : tasks[e].state = "done"

(***************************************************************************)
(* main.rs: step_simulation, the one system of FixedUpdate.                *)
(***************************************************************************)
InitStep ==
    /\ InitTree
    /\ query = NoQuery
    /\ force = SZero
    /\ world \in WorldInputs
    /\ pc = "step_idle"
    /\ tasks = <<>>
    /\ tree = NoTree
    /\ bodies_snapshot = <<>>
    /\ cursor = 0
    /\ sim_bounds = Rect(ZERO, splat(R(0)))
    /\ sim_config = MainConfig
    /\ settings = DefaultSettings
    /\ ticks = 0

arenaVars == <<nodes, root, origin, inserted, aborted, query, force>>

\* Lines 419-424: the snapshot, and Quadtree::new up to its loop (213-240).
StepBegin ==
    /\ pc = "step_idle" /\ ticks < MaxTicks /\ AllRational
    /\ bodies_snapshot' = Snapshot(world)
    /\ tree' = [root |-> BhEmpty, bounds |-> SnapshotBounds(Snapshot(world))]
    /\ cursor' = 1
    /\ pc' = "step_build"
    /\ UNCHANGED <<arenaVars, world, tasks, sim_bounds, sim_config, settings, ticks>>

\* Lines 240-242: one turn of the loop of Quadtree::new.
StepInsert ==
    /\ pc = "step_build" /\ cursor <= Len(bodies_snapshot)
    /\ tree' = [tree EXCEPT !.root =
                  BhNode_insert(tree.root, bodies_snapshot[cursor].entity,
                                bodies_snapshot[cursor].position,
                                bodies_snapshot[cursor].mass, tree.bounds)]
    /\ cursor' = cursor + 1
    /\ UNCHANGED <<arenaVars, world, pc, tasks, bodies_snapshot, sim_bounds,
                   sim_config, settings, ticks>>

\* Mutant of BuildComplete: the loop has begun.
BuildBegun == cursor >= 1

\* Line 424 has returned: the loop of Quadtree::new is over.
BuildComplete == cursor > Len(bodies_snapshot)

\* Lines 426-428: par_iter_mut hands one evaluation per body to the pool.
StepFork ==
    /\ pc = "step_build" /\ BuildComplete
    /\ pc' = "step_forces"
    /\ tasks' = [e \in Entities |-> Ready]
    /\ UNCHANGED <<arenaVars, world, tree, bodies_snapshot, cursor, sim_bounds,
                   sim_config, settings, ticks>>

\* Lines 429-430: a body finds its snapshot entry and queries the tree.
StepForce(e) ==
    /\ pc = "step_forces" /\ tasks[e].state = "ready"
    /\ tasks' = [tasks EXCEPT ![e] =
                   [state |-> "computed",
                    force |-> Bh_calculate_force(tree, bodies_snapshot[e].position, e)]]
    /\ UNCHANGED <<arenaVars, world, pc, tree, bodies_snapshot, cursor,
                   sim_bounds, sim_config, settings, ticks>>

\* Line 431: acc.0 = force / body.mass
StepWrite(e) ==
    /\ pc = "step_forces" /\ tasks[e].state = "computed"
    /\ world' = [world EXCEPT ![e].acceleration =
                    SDiv(tasks[e].force, world[e].mass)]
    /\ tasks' = [tasks EXCEPT ![e].state = "done"]
    /\ UNCHANGED <<arenaVars, pc, tree, bodies_snapshot, cursor, sim_bounds,
                   sim_config, settings, ticks>>

\* Line 433: for_each returns when every evaluation has.
StepJoin ==
    /\ pc = "step_forces" /\ AllDone
    /\ pc' = "step_integrate"
    /\ cursor' = 1
    /\ UNCHANGED <<arenaVars, world, tasks, tree, bodies_snapshot, sim_bounds,
                   sim_config, settings, ticks>>

\* Mutant of Integrated: the position advances by the old velocity.
IntegratedExplicit(b, dt) ==
    [b EXCEPT !.velocity = SAdd(b.velocity, SMul(b.acceleration, dt)),
              !.position = SAdd(b.position, SMul(b.velocity, dt))]

\* Lines 435-438: one turn of the integration loop.
Integrated(b, dt) ==
    [b EXCEPT !.velocity = SAdd(b.velocity, SMul(b.acceleration, dt)),
              !.position = SAdd(b.position,
                                SMul(SAdd(b.velocity, SMul(b.acceleration, dt)), dt))]

StepIntegrate ==
    /\ pc = "step_integrate" /\ cursor <= Len(world)
    /\ world' = [world EXCEPT ![cursor] = Integrated(world[cursor], SIMULATION_STEP)]
    /\ cursor' = cursor + 1
    /\ UNCHANGED <<arenaVars, pc, tasks, tree, bodies_snapshot, sim_bounds,
                   sim_config, settings, ticks>>

\* Line 439: step_simulation returns; its locals are dropped.
StepEnd ==
    /\ pc = "step_integrate" /\ cursor > Len(world)
    /\ pc' = "step_idle"
    /\ tasks' = <<>>
    /\ tree' = NoTree
    /\ bodies_snapshot' = <<>>
    /\ cursor' = 0
    /\ ticks' = ticks + 1
    /\ UNCHANGED <<arenaVars, world, sim_bounds, sim_config, settings>>

NextStep ==
    \/ StepBegin
    \/ StepInsert
    \/ StepFork
    \/ \E e \in Entities : StepForce(e)
    \/ \E e \in Entities : StepWrite(e)
    \/ StepJoin
    \/ StepIntegrate
    \/ StepEnd

SpecStep == InitStep /\ [][NextStep]_vars

(***************************************************************************)
(* systems/core.rs: reset_and_build_tree, calculate_forces and             *)
(* integrate_motion.  The schedule that orders them is not part of the     *)
(* sources, so any of them may run next; a system runs alone, since each   *)
(* pair of them conflicts on the arena or on a component.  The per-body    *)
(* evaluations of calculate_forces run in any order.                       *)
(***************************************************************************)
DefaultBounds == Rect(ZERO, splat(R(2000)))
CULL_DISTANCE == 1500
\* The time scale is a slider from 0.1 to 5.0; culling is a checkbox.
SettingsInputs ==
    {SimSettings(time_scale, enable_culling) :
        time_scale \in {R(1), R(2)}, enable_culling \in BOOLEAN}
ConfigInputs ==
    {SimConfig(R(DEFAULT_G), theta, DEFAULT_DT) : theta \in {Frac(1, 2), R(1)}}

InitSystems ==
    /\ InitTree
    /\ query = NoQuery
    /\ force = SZero
    /\ world \in WorldInputs \cup {<<>>}
    /\ pc = "idle"
    /\ tasks = <<>>
    /\ tree = NoTree
    /\ bodies_snapshot = <<>>
    /\ cursor = 0
    /\ sim_bounds = DefaultBounds
    /\ sim_config \in ConfigInputs
    /\ settings \in SettingsInputs
    /\ ticks = 0

\* Mutant of RootBounds: the square is not widened by a tenth.
RootBoundsTight(bodies) ==
    LET min == MinOver(bodies, 1, bodies[1].position)
        max == MaxOver(bodies, 1, bodies[1].position)
        size == VMax(VSub(max, min), splat(R(1)))
    IN  Rect(VDiv(VAdd(min, max), R(2)), splat(RMax(size[1], size[2])))

\* Lines 88-108: the padded square around the bodies.
RootBounds(bodies) ==
    LET min == MinOver(bodies, 1, bodies[1].position)
        max == MaxOver(bodies, 1, bodies[1].position)
        size == VMax(VSub(max, min), splat(R(1)))
        max_dim == RMul(RMax(size[1], size[2]), Frac(11, 10))
    IN  Rect(VDiv(VAdd(min, max), R(2)), splat(max_dim))

\* Mutant of Rebuild: the arena is not reset, the bodies are inserted into
\* the tree that is there.
RebuildOnto(bounds, bodies) ==
    LET r == BuildFrom([ok |-> TRUE,
                        nodes |-> IF root = None THEN <<empty(bounds)>> ELSE nodes],
                       bodies, 1)
    IN  IF r.ok
        THEN /\ nodes' = r.nodes
             /\ root' = 0
             /\ origin' = "reset"
             /\ inserted' = bodies
             /\ UNCHANGED aborted
        ELSE /\ aborted' = TRUE
             /\ UNCHANGED <<nodes, root, origin, inserted>>

\* Mutant of Rebuild: without bodies the root covers the default bounds.
RebuildAtDefault(bounds, bodies) ==
    LET r == Build(IF bodies = <<>> THEN DefaultBounds ELSE bounds, bodies)
    IN  IF r.ok
        THEN /\ nodes' = r.nodes
             /\ root' = 0
             /\ origin' = "reset"
             /\ inserted' = bodies
             /\ UNCHANGED aborted
        ELSE /\ aborted' = TRUE
             /\ UNCHANGED <<nodes, root, origin, inserted>>

\* Lines 110-116 with the bounds chosen: reset, then insert every body.
Rebuild(bounds, bodies) ==
    LET r == Build(bounds, bodies)
    IN  IF r.ok
        THEN /\ nodes' = r.nodes
             /\ root' = 0
             /\ origin' = "reset"
             /\ inserted' = bodies
             /\ UNCHANGED aborted
        ELSE /\ aborted' = TRUE
             /\ UNCHANGED <<nodes, root, origin, inserted>>

reset_and_build_tree ==
    /\ pc = "idle" /\ ~aborted /\ AllRational
    /\ IF world = <<>>
       THEN /\ Rebuild(sim_bounds, <<>>)
            /\ UNCHANGED sim_bounds
       ELSE /\ sim_bounds' = RootBounds(Snapshot(world))
            /\ Rebuild(RootBounds(Snapshot(world)), Snapshot(world))
    /\ UNCHANGED <<query, force, world, pc, tasks, tree, bodies_snapshot, cursor,
                   sim_config, settings, ticks>>

\* Lines 125-127: par_iter_mut hands one evaluation per body to the pool.
calculate_forces ==
    /\ pc = "idle" /\ ~aborted /\ AllRational
    /\ pc' = "forces"
    /\ tasks' = [e \in Entities |-> Ready]
    /\ UNCHANGED <<arenaVars, world, tree, bodies_snapshot, cursor, sim_bounds,
                   sim_config, settings, ticks>>

\* Line 128: let force = quadtree.calculate_force(entity, **pos, &config)
ForcesEval(e) ==
    /\ pc = "forces" /\ tasks[e].state = "ready"
    /\ tasks' = [tasks EXCEPT ![e] =
                   [state |-> "computed",
                    force |-> calculate_force(nodes, root, e, world[e].position.rat,
                                              sim_config)]]
    /\ UNCHANGED <<arenaVars, world, pc, tree, bodies_snapshot, cursor,
                   sim_bounds, sim_config, settings, ticks>>

\* Mutant of AccelerationOf: the force is taken for the acceleration.
AccelerationIsForce(f, mass) == f

\* Line 129: force / **mass
AccelerationOf(f, mass) == SDiv(f, mass)

\* Line 129: acc.0 = force / **mass
ForcesWrite(e) ==
    /\ pc = "forces" /\ tasks[e].state = "computed"
    /\ world' = [world EXCEPT ![e].acceleration =
                    AccelerationOf(tasks[e].force, world[e].mass)]
    /\ tasks' = [tasks EXCEPT ![e].state = "done"]
    /\ UNCHANGED <<arenaVars, pc, tree, bodies_snapshot, cursor, sim_bounds,
                   sim_config, settings, ticks>>

\* Line 130: for_each returns when every evaluation has.
ForcesEnd ==
    /\ pc = "forces" /\ AllDone
    /\ pc' = "idle"
    /\ tasks' = <<>>
    /\ UNCHANGED <<arenaVars, world, tree, bodies_snapshot, cursor, sim_bounds,
                   sim_config, settings, ticks>>

\* cull_bodies, with its despawn commands applied: the bodies farther than
\* CULL_DISTANCE from the origin are gone.
\* Line 194: pos.length() > CULL_DISTANCE, on squares.
Culled(b) ==
    RLt(R(CULL_DISTANCE * CULL_DISTANCE), length_squared(b.position.rat))
Kept(b) == ~Culled(b)

cull_bodies ==
    /\ pc = "idle" /\ AllRational
    /\ IF settings.enable_culling
       THEN world' = SelectSeq(world, Kept)
       ELSE UNCHANGED world
    /\ UNCHANGED <<arenaVars, pc, tasks, tree, bodies_snapshot, cursor, sim_bounds,
                   sim_config, settings, ticks>>

\* Lines 144-151, for one body.
Moved(b, dt) == [Integrated(b, dt) EXCEPT !.acceleration = SZero]

integrate_motion ==
    /\ pc = "idle" /\ ticks < MaxTicks
    /\ world' = [e \in Entities |->
                    Moved(world[e], RMul(sim_config.dt, settings.time_scale))]
    /\ ticks' = ticks + 1
    /\ UNCHANGED <<arenaVars, pc, tasks, tree, bodies_snapshot, cursor,
                   sim_bounds, sim_config, settings>>

NextSystems ==
    \/ reset_and_build_tree
    \/ calculate_forces
    \/ \E e \in Entities : ForcesEval(e)
    \/ \E e \in Entities : ForcesWrite(e)
    \/ ForcesEnd
    \/ integrate_motion
    \/ cull_bodies

SpecSystems == InitSystems /\ [][NextSystems]_vars

(***************************************************************************)
(* C1.  Claim: after reset and any inserts, every Internal node's mass is  *)
(* the sum of the masses of the leaves reachable from it and its           *)
(* center_of_mass is the mass-weighted average of their stored positions.  *)
(***************************************************************************)
MassIsLeafSum(i) ==
    At(nodes, i).mass = LeafMass(nodes, LeavesUnder(nodes, i))
LeafAverage(i) ==
    VDiv(LeafMoment(nodes, LeavesUnder(nodes, i)), At(nodes, i).mass)
ComIsLeafAverage(i) == At(nodes, i).center_of_mass = LeafAverage(i)
InternalNodes == {i \in Indices(nodes) : IsInternal(At(nodes, i))}

\* C1 as claimed.
C1_AggregatesExact ==
    Built => \A i \in InternalNodes : MassIsLeafSum(i) /\ ComIsLeafAverage(i)

\* C1 as amended: the mass is exact; the centre of mass is exact unless two
\* bodies lie at different positions within squared distance 1e-4, and is
\* then still within squared distance 1e-4 of the average.
C1_Aggregates ==
    Built => \A i \in InternalNodes :
        /\ MassIsLeafSum(i)
        /\ ~SomeNearDistinct => ComIsLeafAverage(i)
        /\ RLt(length_squared(VSub(At(nodes, i).center_of_mass, LeafAverage(i))), EPS)

\* An Internal node over a leaf that holds two merged bodies, all positions
\* exact.
C1_Witness ==
    /\ Built /\ ~SomeNearDistinct /\ Len(inserted) = 3
    /\ \E i \in InternalNodes : \E l \in LeavesUnder(nodes, i) :
          \A b \in Bodies : At(nodes, l).mass # b.mass

(***************************************************************************)
(* C2.  Claim: with theta = 0 calculate_force never takes the              *)
(* approximation branch; its result is the sum of the leaf formula over    *)
(* all inserted bodies except the target.                                  *)
(***************************************************************************)
RECURSIVE DirectSum(_, _, _)
DirectSum(S, position, config) ==
    IF S = {} THEN SZero
    ELSE LET b == CHOOSE x \in S : TRUE
         IN  SAdd(LeafForce(b.position, b.mass, position, config),
                  DirectSum(S \ {b}, position, config))

RECURSIVE LeafSum(_, _, _, _)
LeafSum(ns, S, position, config) ==
    IF S = {} THEN SZero
    ELSE LET i == CHOOSE x \in S : TRUE
         IN  SAdd(LeafForce(At(ns, i).kind.position, At(ns, i).mass, position, config),
                  LeafSum(ns, S \ {i}, position, config))

Others(target) == {b \in Bodies : b.entity # target}
OtherLeaves(target) ==
    {i \in LeavesUnder(nodes, root) : At(nodes, i).kind.entity # target}
NoMerge == Cardinality(LeavesUnder(nodes, root)) = Len(inserted)
ExactQuery == query.active /\ Built /\ query.config.theta = R(0)

\* C2 as claimed.
C2_DirectSum ==
    ExactQuery => force = DirectSum(Others(query.target), query.position, query.config)

\* C2 as amended: no Internal node is accepted, the result is the sum of the
\* leaf formula over the leaves of other entities, and that is the direct
\* sum over the other bodies when no two bodies were merged into one leaf.
C2_LeafSum ==
    ExactQuery =>
        /\ \A i \in InternalNodes :
              ~Accepts(At(nodes, i).bounds.size[1],
                       DistSquared(VSub(At(nodes, i).center_of_mass, query.position)),
                       query.config.theta)
        /\ force = LeafSum(nodes, OtherLeaves(query.target), query.position, query.config)
        /\ NoMerge =>
              force = DirectSum(Others(query.target), query.position, query.config)

\* Three separate bodies, queried exactly for one of them at its position.
C2_Witness ==
    /\ ExactQuery /\ NoMerge /\ Len(inserted) = 3
    /\ \E b \in Bodies : b.entity = query.target /\ b.position = query.position
    /\ Cardinality(force.surd) = 2

(***************************************************************************)
(* C3.  Claim: for theta in 0.1 .. 1.0, calculate_force(target, target's   *)
(* own position) holds no contribution of the target's own mass (its value *)
(* does not change with that mass), and is zero when the tree holds the    *)
(* target alone.                                                           *)
(***************************************************************************)
WithMass(seq, entity, mass) ==
    [k \in 1..Len(seq) |-> IF seq[k].entity = entity
                           THEN [seq[k] EXCEPT !.mass = mass]
                           ELSE seq[k]]

OwnQuery ==
    /\ query.active /\ Built
    /\ RLe(Frac(1, 10), query.config.theta) /\ RLe(query.config.theta, R(1))
    /\ \E b \in Bodies : b.entity = query.target /\ b.position = query.position

C3_SelfExclusion ==
    OwnQuery =>
        LET b == CHOOSE x \in Bodies : x.entity = query.target
            heavier == Build(At(nodes, 0).bounds,
                             WithMass(inserted, b.entity, RMul(b.mass, R(2))))
        IN  /\ force = calculate_force(heavier.nodes, 0, query.target,
                                       query.position, query.config)
            /\ Len(inserted) = 1 => force = SZero

(***************************************************************************)
(* C4.  Claim: every order of the same inserts gives the same root mass    *)
(* and the same root center_of_mass.                                       *)
(***************************************************************************)
Orders(n) == {p \in [1..n -> 1..n] : \A i, j \in 1..n : i # j => p[i] # p[j]}
Reorder(seq, p) == [k \in 1..Len(seq) |-> seq[p[k]]]
Rebuilt(p) == Build(At(nodes, 0).bounds, Reorder(inserted, p))

\* C4 as claimed.
C4_OrderFree ==
    Built => \A p \in Orders(Len(inserted)) :
        LET r == Rebuilt(p)
        IN  /\ r.ok
            /\ At(r.nodes, 0).mass = At(nodes, 0).mass
            /\ At(r.nodes, 0).center_of_mass = At(nodes, 0).center_of_mass

\* C4 as amended: the root mass is the same in every order; the root centre
\* of mass is, unless two bodies lie at different positions within squared
\* distance 1e-4.
C4_OrderFreeMass ==
    Built => \A p \in Orders(Len(inserted)) :
        LET r == Rebuilt(p)
        IN  /\ r.ok
            /\ At(r.nodes, 0).mass = At(nodes, 0).mass
            /\ ~SomeNearDistinct =>
                  At(r.nodes, 0).center_of_mass = At(nodes, 0).center_of_mass

\* Three bodies, exact positions, and an order that gives another arena.
C4_Witness ==
    /\ Built /\ ~SomeNearDistinct /\ Len(inserted) = 3
    /\ \E p \in Orders(3) : Rebuilt(p).nodes # nodes

(***************************************************************************)
(* C5.  Claim: an insert that reaches a Leaf stored within squared         *)
(* distance 1e-4 of the new position leaves it a Leaf with its entity and  *)
(* stored position, adds the masses, sets center_of_mass to the weighted   *)
(* average of the two positions and adds no node.                          *)
(***************************************************************************)
\* The node an insert of position comes to rest at.
RECURSIVE Land(_, _, _)
Land(ns, i, position) ==
    LET n == At(ns, i)
        c == IF IsInternal(n)
             THEN n.kind.children[get_quadrant_index(n.bounds, position) + 1]
             ELSE None
    IN  IF c = None THEN i ELSE Land(ns, c, position)

C5_MergeStep ==
    /\ Built /\ origin' = "reset" /\ Len(inserted') = Len(inserted) + 1
    /\ LET b == inserted'[Len(inserted')]
           j == Land(nodes, root, b.position)
       IN  IsLeaf(At(nodes, j)) /\ SameLocation(At(nodes, j).kind.position, b.position)

C5_MergeEffect ==
    LET b == inserted'[Len(inserted')]
        j == Land(nodes, root, b.position)
        old == At(nodes, j)
        new == At(nodes', j)
    IN  /\ Len(nodes') = Len(nodes)
        /\ new.kind = old.kind
        /\ new.bounds = old.bounds
        /\ new.mass = RAdd(old.mass, b.mass)
        /\ new.center_of_mass =
              VDiv(VAdd(VMul(old.kind.position, old.mass), VMul(b.position, b.mass)),
                   RAdd(old.mass, b.mass))
        /\ \A k \in Indices(nodes) \ {j} :
              At(nodes', k).kind = At(nodes, k).kind

C5_Merge == [][C5_MergeStep => C5_MergeEffect]_vars

\* The example of the claim: masses 2 and 3 at (1, 1) give one node of mass 5.
C5_Witness ==
    /\ Built /\ Len(inserted) = 2 /\ Len(nodes) = 1
    /\ inserted[1].position = V(1, 1) /\ inserted[2].position = V(1, 1)
    /\ inserted[1].mass = R(2) /\ inserted[2].mass = R(3)
    /\ IsLeaf(At(nodes, 0)) /\ At(nodes, 0).kind.entity = 1
    /\ At(nodes, 0).mass = R(5) /\ At(nodes, 0).center_of_mass = V(1, 1)

(***************************************************************************)
(* C6.  Claim: within one tick every insert of the rebuild completes       *)
(* before the first force query starts, and every body's force query       *)
(* completes before any velocity or position is integrated; so the forces  *)
(* of a tick come from the positions as they stood before integration and  *)
(* the tree is never written while it is queried.                          *)
(***************************************************************************)
Forked == tasks # <<>>
SnapshotForce(e) ==
    Bh_calculate_force(Quadtree_new(bodies_snapshot), bodies_snapshot[e].position, e)

C6_Ordered ==
    /\ Forked => tree = Quadtree_new(bodies_snapshot)
    /\ pc \in {"step_build", "step_forces"} =>
          \A e \in Entities :
              world[e].position = OfVec(bodies_snapshot[e].position)
    /\ \A e \in DOMAIN tasks :
          /\ tasks[e].state # "ready" => tasks[e].force = SnapshotForce(e)
          /\ tasks[e].state = "done" =>
                world[e].acceleration = SDiv(SnapshotForce(e), world[e].mass)

C6_Separated ==
    /\ tree' # tree => pc # "step_forces" /\ pc' # "step_forces"
    /\ (\E e \in Entities : \/ world'[e].position # world[e].position
                            \/ world'[e].velocity # world[e].velocity)
          => pc = "step_integrate" /\ AllDone

Evaluated(e) ==
    SDiv(calculate_force(nodes, root, e, world[e].position.rat, sim_config),
         world[e].mass)

C7_Result ==
    pc = "forces" =>
        \A e \in Entities : tasks[e].state = "done" =>
            world[e].acceleration = Evaluated(e)

C7_Frame ==
    (pc = "forces" \/ pc' = "forces") =>
        /\ nodes' = nodes /\ root' = root
        /\ \A e \in Entities :
              /\ world'[e].position = world[e].position
              /\ world'[e].velocity = world[e].velocity
              /\ world'[e].mass = world[e].mass
              /\ world'[e].acceleration # world[e].acceleration =>
                    /\ tasks[e].state = "computed" /\ tasks'[e].state = "done"
                    /\ world'[e].acceleration = Evaluated(e)
                    /\ \A o \in Entities \ {e} :
                          world'[o].acceleration = world[o].acceleration

C7_OrderFree == []C7_Result /\ [][C7_Frame]_vars

\* The third body's evaluation has finished before the first one's began.
C7_Witness ==
    /\ pc = "forces" /\ Len(world) = 3 /\ Built /\ Len(inserted) = 3
    /\ tasks[3].state = "done" /\ tasks[1].state = "ready"
    /\ world[3].acceleration # SZero /\ world[3].mass # R(1)

(***************************************************************************)
(* C8.  Claim: at an Internal node calculate_force returns one point-mass  *)
(* contribution if and only if width / max(|center_of_mass - position|,    *)
(* 1e-4) < theta, width being the bounds' size in x; otherwise it returns  *)
(* the sum of the contributions of the node's present children, absent     *)
(* slots contributing nothing.                                             *)
(***************************************************************************)
\* width / max(|delta|, 1e-4) < theta for width >= 0 and theta >= 0, on squares.
Criterion(n, position, theta) ==
    LET delta == VSub(n.center_of_mass, position)
        far2 == RMax(length_squared(delta), Frac(1, 100000000))
    IN  /\ RLt(R(0), theta)
        /\ RLt(RMul(n.bounds.size[1], n.bounds.size[1]),
               RMul(RMul(theta, theta), far2))

\* r is one contribution along center_of_mass - position, of the node's mass.
IsPointMass(r, n, position, config) ==
    /\ r.rat = ZERO
    /\ Cardinality(r.surd) <= 1
    /\ \A t \in r.surd :
          /\ t.delta = VSub(n.center_of_mass, position)
          /\ t.num = RMul(config.g, n.mass)
    /\ (n.center_of_mass # position /\ n.mass # R(0)) => r.surd # {}

RECURSIVE ChildSum(_, _, _, _)
ChildSum(S, target, position, config) ==
    IF S = {} THEN SZero
    ELSE LET c == CHOOSE x \in S : TRUE
         IN  SAdd(calculate_force_recursive(nodes, c, target, position, config),
                  ChildSum(S \ {c}, target, position, config))

C8_Criterion ==
    (query.active /\ ~aborted) =>
        \A i \in InternalNodes :
            LET n == At(nodes, i)
                r == calculate_force_recursive(nodes, i, query.target,
                                               query.position, query.config)
            IN  IF Criterion(n, query.position, query.config.theta)
                THEN IsPointMass(r, n, query.position, query.config)
                ELSE r = ChildSum(Present(n), query.target, query.position,
                                  query.config)

\* One query that opens the root and accepts an Internal node below it.
C8_Witness ==
    /\ query.active /\ Built /\ force.surd # {}
    /\ ~Criterion(At(nodes, root), query.position, query.config.theta)
    /\ \E i \in InternalNodes :
          /\ At(nodes, i).mass # R(0)
          /\ Criterion(At(nodes, i), query.position, query.config.theta)

(***************************************************************************)
(* C9.  Claim: the contribution of an accepted Internal node is the Leaf   *)
(* formula for a leaf of the node's mass at the node's center_of_mass:     *)
(* dist_sq = |delta|^2 + softening^2, dist = sqrt(dist_sq),                *)
(* contribution = delta / dist * (G * mass / dist_sq).                     *)
(***************************************************************************)
C9_LeafFormula ==
    (query.active /\ ~aborted) =>
        \A i \in InternalNodes :
            LET n == At(nodes, i)
            IN  Criterion(n, query.position, query.config.theta) =>
                    calculate_force_recursive(nodes, i, query.target,
                                              query.position, query.config)
                    = LeafForce(n.center_of_mass, n.mass, query.position,
                                query.config)

(***************************************************************************)
(* C10.  Claim: for A at the origin with mass 1 and B at (3,0) with mass   *)
(* 2, G = 100 and softening 5, the computed acceleration of A is           *)
(* (5.882, 0) and the x-acceleration of B is -1.4706.                      *)
(***************************************************************************)
\* The integer square root, by bisection.
RECURSIVE ISqrtIn(_, _, _)
ISqrtIn(n, lo, hi) ==
    IF lo >= hi THEN lo
    ELSE LET mid == (lo + hi + 1) \div 2
         IN  IF mid * mid <= n THEN ISqrtIn(n, mid, hi) ELSE ISqrtIn(n, lo, mid - 1)
ISqrt(n) == ISqrtIn(n, 0, 46000)

\* The x component of one term in thousandths, to one part in a thousand:
\* delta.x / sqrt(dist2) * (num / dist_sq), rounded down.
TermXMilli(t) ==
    LET root2 == ISqrt(t.dist2[1] * t.dist2[2] * 1000000)
    IN  (1000000 * t.delta[1][1] * t.num[1] * t.dist_sq[2] * t.dist2[2])
            \div (t.delta[1][2] * t.num[2] * t.dist_sq[1] * root2)

\* The world of the scenario, its tree built and every evaluation finished.
TwoBodies ==
    /\ pc = "forces" /\ AllDone /\ Built
    /\ Len(world) = 2 /\ inserted = Snapshot(world)
    /\ world[1].position = OfVec(V(0, 0)) /\ world[1].mass = R(1)
    /\ world[2].position = OfVec(V(3, 0)) /\ world[2].mass = R(2)

OneTermAlongX(v) ==
    /\ v.rat = ZERO /\ Cardinality(v.surd) = 1
    /\ \A t \in v.surd : t.delta[2] = R(0)
XMilli(v) == TermXMilli(CHOOSE t \in v.surd : TRUE)

\* C10 as claimed, to the digits it gives.
C10_Claimed ==
    TwoBodies =>
        /\ OneTermAlongX(world[1].acceleration)
        /\ XMilli(world[1].acceleration) \in {5881, 5882}
        /\ OneTermAlongX(world[2].acceleration)
        /\ XMilli(world[2].acceleration) \in {-1471, -1470}

\* C10 as amended: the acceleration of A is 3 / sqrt(34) * (100 * 2 / 34) =
\* 3.026 along x and that of B is -3 / sqrt(34) * (100 * 1 / 34) / 2 = -0.757.
C10_Softened ==
    TwoBodies =>
        /\ world[1].acceleration = SV(ZERO, Term(V(3, 0), R(34), R(200), R(34)))
        /\ world[2].acceleration = SV(ZERO, Term(V(-3, 0), R(34), R(50), R(34)))
        /\ XMilli(world[1].acceleration) = 3026
        /\ XMilli(world[2].acceleration) = -757

C10_Witness ==
    /\ TwoBodies
    /\ world[1].acceleration # SZero /\ world[2].acceleration # SZero

(***************************************************************************)
(* C11.  Claim: integrate_motion performs semi-implicit Euler for every    *)
(* body with dt = config.dt * settings.time_scale: the new velocity is     *)
(* velocity + acceleration * dt, the new position is position + (the new   *)
(* velocity) * dt, the acceleration is zero afterwards, and no mass is     *)
(* changed.                                                                *)
(***************************************************************************)
IntegrateStep == pc = "idle" /\ pc' = "idle" /\ ticks' = ticks + 1
ScaledStep == RMul(sim_config.dt, settings.time_scale)

C11_Effect ==
    /\ Len(world') = Len(world)
    /\ \A e \in Entities :
          LET new_velocity ==
                  SAdd(world[e].velocity, SMul(world[e].acceleration, ScaledStep))
          IN  /\ world'[e].velocity = new_velocity
              /\ world'[e].position =
                    SAdd(world[e].position, SMul(new_velocity, ScaledStep))
              /\ world'[e].acceleration = SZero
              /\ world'[e].mass = world[e].mass
    /\ nodes' = nodes /\ root' = root
    /\ sim_config' = sim_config /\ settings' = settings

C11_Euler == [][IntegrateStep => C11_Effect]_vars

\* One integration at time scale 2 of a body that a force had accelerated.
C11_Witness ==
    /\ pc = "idle" /\ ticks = 1 /\ settings.time_scale = R(2)
    /\ \E e \in Entities :
          /\ ~Rational(world[e].velocity) /\ ~Rational(world[e].position)
          /\ world[e].acceleration = SZero

(***************************************************************************)
(* C12.  Claim: for a non-empty body set reset_and_build_tree sets both    *)
(* SimulationBounds.root and the root node's bounds to a square centred at *)
(* the midpoint of the bodies' bounding box with side                      *)
(* 1.1 * max(width, height, 1.0), and every body's position lies inside    *)
(* that square; bodies at (-10,-5) and (20,15) give centre (5,5), side 33. *)
(***************************************************************************)
Least(S) == CHOOSE x \in S : \A y \in S : RLe(x, y)
Greatest(S) == CHOOSE x \in S : \A y \in S : RLe(y, x)
Coordinates(S, k) == {b.position[k] : b \in S}
Extent(S, k) == RSub(Greatest(Coordinates(S, k)), Least(Coordinates(S, k)))
Midpoint(S, k) ==
    RDiv(RAdd(Least(Coordinates(S, k)), Greatest(Coordinates(S, k))), R(2))
PaddedSquare(S) ==
    Rect(<<Midpoint(S, 1), Midpoint(S, 2)>>,
         splat(RMul(Frac(11, 10), RMax(RMax(Extent(S, 1), Extent(S, 2)), R(1)))))
Inside(rect, point) ==
    \A k \in 1..2 :
        /\ RLe(RSub(rect.center[k], RDiv(rect.size[k], R(2))), point[k])
        /\ RLe(point[k], RAdd(rect.center[k], RDiv(rect.size[k], R(2))))
TestPair == {V(-10, -5), V(20, 15)}

C12_Bounds ==
    (Built /\ inserted # <<>>) =>
        /\ sim_bounds = PaddedSquare(Bodies)
        /\ At(nodes, root).bounds = PaddedSquare(Bodies)
        /\ \A b \in Bodies : Inside(sim_bounds, b.position)
        /\ {b.position : b \in Bodies} = TestPair =>
              sim_bounds = Rect(V(5, 5), splat(R(33)))

\* The bodies of the test, rebuilt: centre (5, 5), side 33, three nodes or more.
C12_Witness ==
    /\ Built /\ {b.position : b \in Bodies} = TestPair
    /\ At(nodes, root).bounds = Rect(V(5, 5), splat(R(33)))
    /\ Len(nodes) >= 3

(***************************************************************************)
(* C13.  Claim: with an empty body set reset_and_build_tree leaves         *)
(* SimulationBounds unchanged and resets the tree to a single Empty root   *)
(* covering the prior bounds, whatever the tree held before; every         *)
(* calculate_force query on it returns (0, 0).                             *)
(***************************************************************************)
\* A step of reset_and_build_tree without bodies that changes the arena.
EmptyRebuildStep ==
    /\ world = <<>> /\ pc = "idle" /\ pc' = "idle" /\ ticks' = ticks
    /\ <<nodes', root', origin', inserted'>> # <<nodes, root, origin, inserted>>

C13_Effect ==
    /\ sim_bounds' = sim_bounds
    /\ root' = 0
    /\ nodes' = <<Node(sim_bounds, ZERO, R(0), Empty)>>
    /\ \A target \in {b.entity : b \in Bodies} \cup {Stranger},
          position \in {b.position : b \in Bodies} \cup {ZERO},
          config \in ConfigInputs :
          calculate_force(nodes', root', target, position, config) = SZero

C13_EmptyRebuild == [][EmptyRebuildStep => C13_Effect]_vars

\* The last body has been despawned and the tree rebuilt: one Empty root
\* over the square that the rebuild before had put around that body.
C13_Witness ==
    /\ world = <<>> /\ origin = "reset" /\ inserted = <<>>
    /\ sim_bounds = Rect(V(2000, 0), splat(Frac(11, 10)))
    /\ nodes = <<Node(sim_bounds, ZERO, R(0), Empty)>>

(***************************************************************************)
(* C14.  Claim: after reset(bounds), from any prior state of the index,    *)
(* the arena contains exactly one node, that node is Empty with mass 0 and *)
(* bounds equal to the argument, and root refers to it.                    *)
(***************************************************************************)
\* A step of reset that changes the index.
ResetStep ==
    /\ origin' = "reset" /\ inserted' = <<>>
    /\ <<nodes', root', origin', inserted'>> # <<nodes, root, origin, inserted>>

C14_Effect ==
    /\ Len(nodes') = 1
    /\ root' = 0
    /\ IsEmpty(At(nodes', root'))
    /\ At(nodes', root').mass = R(0)
    /\ At(nodes', root').bounds \in BoundsInputs

BetweenResets == origin = "reset" /\ origin' = "reset" /\ inserted' # <<>>

C15_Effect ==
    /\ Len(nodes') >= Len(nodes)
    /\ root' = root
    /\ \A i \in Indices(nodes) :
          /\ At(nodes', i).bounds = At(nodes, i).bounds
          /\ IsInternal(At(nodes, i)) => At(nodes', i).kind = At(nodes, i).kind

C15_Grows == [][BetweenResets => C15_Effect]_vars

\* Three inserts have subdivided twice: nine nodes or more.
C15_Witness == Built /\ Len(inserted) = 3 /\ Len(nodes) >= 9

(***************************************************************************)
(* C16.  Claim: no insertion fails: every call to insert on an index       *)
(* reachable by reset and inserts terminates, for every position and every *)
(* positive mass, with no precondition that the position lies inside the   *)
(* root bounds.                                                            *)
(***************************************************************************)
C16_Terminates == ~aborted

(***************************************************************************)
(* C17.  Claim: on an index that has never been reset (root is None),      *)
(* insert leaves the arena and the root unchanged, and calculate_force     *)
(* returns the zero vector for every target and position.                  *)
(***************************************************************************)
NeverReset == origin = "default"

C17_NoRoot ==
    NeverReset =>
        /\ nodes = <<>> /\ root = None
        /\ query.active => force = SZero
        /\ \A target \in QueryTargets, position \in QueryPositions,
              theta \in ThetaInputs :
              calculate_force(nodes, root, target, position,
                              SimConfig(R(DEFAULT_G), theta, DEFAULT_DT)) = SZero

\* Two inserts into an index without a root, then a query for the first of
\* the two bodies at the position of the second.
C17_Witness ==
    /\ NeverReset /\ Len(inserted) = 2 /\ nodes = <<>> /\ root = None
    /\ query.active /\ query.target = 1 /\ query.position = inserted[2].position
    /\ inserted[1].position # inserted[2].position
    /\ force = SZero

(***************************************************************************)
(* C18.  Claim: for every square region R, get_quadrant_index maps every   *)
(* point to exactly one index in 0..3 using strict greater-than against    *)
(* the centre (a point on a centre line goes to the lower/left side;       *)
(* 0 = upper-left, 1 = upper-right, 2 = lower-left, 3 = lower-right), the  *)
(* four sub_quadrant regions have half of R's width and height with        *)
(* centres offset by a quarter of the size in the matching signs, together *)
(* cover R with disjoint interiors, and every point of R lies inside       *)
(* sub_quadrant(get_quadrant_index(point)).                                *)
(***************************************************************************)
\* The regions: those of the arena, and the square of
\* tests::quadrants_and_subdivision_are_consistent.
TestRect == Rect(ZERO, splat(R(4)))
Regions == {At(nodes, i).bounds : i \in Indices(nodes)} \cup {TestRect}

\* Points at eighths of a region's size from its centre: on the centre
\* lines (0), inside (1), on the border (4) and outside (5), on either side.
Eighths == {-5, -4, -1, 0, 1, 4, 5}
Grid(rect) ==
    {<<RAdd(rect.center[1], RMul(rect.size[1], Frac(i, 8))),
       RAdd(rect.center[2], RMul(rect.size[2], Frac(j, 8)))>> : i, j \in Eighths}

\* The side a quadrant lies on along axis k: -1 for left / lower, 1 for
\* right / upper.
SideOf(index, k) ==
    IF k = 1 THEN (IF index \in {1, 3} THEN 1 ELSE -1)
    ELSE (IF index \in {0, 1} THEN 1 ELSE -1)

\* The point lies on the side of the centre that the index names, a point on
\* a centre line counting as left / lower.
OnItsSide(rect, point, index) ==
    \A k \in 1..2 :
        IF SideOf(index, k) = 1
        THEN RLt(rect.center[k], point[k])
        ELSE RLe(point[k], rect.center[k])

Area(rect) == RMul(rect.size[1], rect.size[2])
InteriorsDisjoint(a, b) ==
    \E k \in 1..2 :
        LET gap == RSub(a.center[k], b.center[k])
        IN  RLe(RDiv(RAdd(a.size[k], b.size[k]), R(2)),
                IF RLt(gap, R(0)) THEN RNeg(gap) ELSE gap)
Corners(rect) ==
    {<<RAdd(rect.center[1], RMul(rect.size[1], Frac(i, 2))),
       RAdd(rect.center[2], RMul(rect.size[2], Frac(j, 2)))>> : i, j \in {-1, 1}}

Classified(rect) ==
    \A point \in Grid(rect) :
        LET index == get_quadrant_index(rect, point)
        IN  /\ index \in 0..3
            /\ OnItsSide(rect, point, index)
            /\ Inside(rect, point) => Inside(sub_quadrant(rect, index), point)

Quartered(rect) ==
    /\ \A index \in 0..3 :
          LET sub == sub_quadrant(rect, index)
          IN  /\ sub.size = VDiv(rect.size, R(2))
              /\ \A k \in 1..2 :
                    sub.center[k] =
                        RAdd(rect.center[k],
                             RMul(RMul(rect.size[k], Frac(1, 4)), R(SideOf(index, k))))
              /\ \A corner \in Corners(sub) : Inside(rect, corner)
    /\ \A i, j \in 0..3 :
          i # j => InteriorsDisjoint(sub_quadrant(rect, i), sub_quadrant(rect, j))
    /\ RMul(R(4), Area(sub_quadrant(rect, 0))) = Area(rect)

\* A query leaves the arena as it is, so the regions are looked at between
\* queries.
C18_Quadrants ==
    /\ ~query.active => \A rect \in Regions : Classified(rect) /\ Quartered(rect)
    /\ get_quadrant_index(TestRect, V(-1, 1)) = 0
    /\ get_quadrant_index(TestRect, V(1, 1)) = 1
    /\ get_quadrant_index(TestRect, V(-1, -1)) = 2
    /\ get_quadrant_index(TestRect, V(1, -1)) = 3

\* A body at the very centre of a subdivided region sits in the leaf of the
\* lower-left child, and a second subdivision has made regions of a quarter
\* of the root's side.
C18_Witness ==
    /\ Built /\ Len(nodes) >= 9
    /\ \E i \in InternalNodes :
          LET n == At(nodes, i)
              c == At(nodes, n.kind.children[3])
          IN  /\ IsLeaf(c) /\ c.kind.position = n.bounds.center
              /\ c.bounds = sub_quadrant(n.bounds, 2)

(***************************************************************************)
(* C19.  Claim: after reset and any sequence of inserts, any two inserted  *)
(* bodies whose positions are within squared distance 1e-4 of each other   *)
(* are represented by one and the same Leaf node: the tree never holds two *)
(* distinct leaves whose stored positions are within squared distance      *)
(* 1e-4.                                                                   *)
(***************************************************************************)
LeafIndices == {i \in Indices(nodes) : IsLeaf(At(nodes, i))}
StoredAt(i) == At(nodes, i).kind.position
CloseLeaves ==
    \E i, j \in LeafIndices : i # j /\ SameLocation(StoredAt(i), StoredAt(j))

\* C19 as claimed.
C19_OneLeaf == Built => ~CloseLeaves

\* C19 as amended: no two leaves store the same position, and every leaf
\* below a child of an Internal node stores a position on that child's
\* side of the node's centre lines; so two leaves within squared distance
\* 1e-4 lie on different sides of a centre line of an ancestor of both.
C19_Filed ==
    Built =>
        /\ \A i, j \in LeafIndices : i # j => StoredAt(i) # StoredAt(j)
        /\ \A a \in InternalNodes : \A k \in 0..3 :
              LET c == At(nodes, a).kind.children[k + 1]
              IN  c # None =>
                    \A l \in LeavesUnder(nodes, c) :
                        OnItsSide(At(nodes, a).bounds, StoredAt(l), k)

\* Two leaves within squared distance 1e-4 of each other, in one tree.
C19_Witness == Built /\ Len(inserted) = 3 /\ CloseLeaves

(***************************************************************************)
(* C20.  Claim: in every state reachable by reset and inserts, each Leaf   *)
(* node holds exactly one body: its mass equals the mass of the body named *)
(* by its entity and its center_of_mass equals that body's position.       *)
(***************************************************************************)
Named(i) == {b \in Bodies : b.entity = At(nodes, i).kind.entity}

\* C20 as claimed.
C20_OneBody ==
    Built => \A i \in LeafIndices :
        \E b \in Named(i) :
            /\ At(nodes, i).mass = b.mass
            /\ At(nodes, i).center_of_mass = b.position

\* C20 as amended: a leaf stores the position of the body its entity names;
\* its mass is that of this body and of bodies inserted within squared
\* distance 1e-4 of the stored position, its center_of_mass is within that
\* distance of it, and both are the body's own when nothing was merged.
C20_FirstBody ==
    Built => \A i \in LeafIndices :
        \E b \in Named(i) :
            /\ StoredAt(i) = b.position
            /\ \E S \in SUBSET Bodies :
                  /\ b \in S
                  /\ \A x \in S : SameLocation(StoredAt(i), x.position)
                  /\ At(nodes, i).mass = BodyMass(S)
            /\ SameLocation(At(nodes, i).center_of_mass, b.position)
            /\ NoMerge => /\ At(nodes, i).mass = b.mass
                          /\ At(nodes, i).center_of_mass = b.position

\* Three bodies in two leaves: one leaf holds a body alone, the other has
\* had a body merged into it.
C20_Witness ==
    /\ Built /\ Len(inserted) = 3 /\ Cardinality(LeafIndices) = 2
    /\ \E i \in LeafIndices : \E b \in Named(i) : At(nodes, i).mass = b.mass
    /\ \E i \in LeafIndices : \A b \in Named(i) : At(nodes, i).mass # b.mass

(***************************************************************************)
(* C21.  Claim: no force evaluation divides by zero: for every tree, every *)
(* query position (including one equal to a leaf position or to an         *)
(* internal node's center_of_mass) and the fixed softening 5, every        *)
(* denominator used in calculate_force_recursive (dist_sq and dist at a    *)
(* leaf; dist and dist_sq at an internal node) is strictly positive.       *)
(***************************************************************************)
\* A divisor is positive; a square root is when its square is.
Positive(d) ==
    IF d.name = "dist" THEN RLt(R(0), d.squared) ELSE RLt(R(0), d.value)
CentrePositions == {At(nodes, i).center_of_mass : i \in InternalNodes}

\* The divisors of the query in progress; between queries, those of every
\* query that could be made, the centres of mass among the positions.
C21_NoZeroDivisor ==
    ~aborted =>
        IF query.active
        THEN root # None =>
                \A d \in Divisors(nodes, root, query.target, query.position,
                                  query.config) : Positive(d)
        ELSE root # None =>
                \A target \in QueryTargets,
                   position \in QueryPositions \cup CentrePositions,
                   theta \in ThetaInputs :
                   \A d \in Divisors(nodes, root, target, position,
                                     SimConfig(R(DEFAULT_G), theta, DEFAULT_DT)) :
                       Positive(d)

\* A query at the very centre of mass of an Internal root: the distance is
\* zero and the divisor is the floor, 1e-4.
C21_Witness ==
    /\ query.active /\ root # None /\ IsInternal(At(nodes, root))
    /\ query.position = At(nodes, root).center_of_mass
    /\ \E d \in Divisors(nodes, root, query.target, query.position, query.config) :
          d.name = "dist" /\ d.squared = RMul(EPS, EPS)

(***************************************************************************)
(* C22.  Claim: no cross-step state is retained: for a non-empty body set  *)
(* the arena, root and SimulationBounds produced by reset_and_build_tree   *)
(* are the same whatever the tree and bounds held before the call; they    *)
(* depend only on the current bodies' ids, positions and masses in         *)
(* iteration order.                                                        *)
(***************************************************************************)
\* What a reset to the padded square and the inserts of seq, in order, give.
FromScratch(seq) ==
    Build(PaddedSquare({seq[k] : k \in 1..Len(seq)}), seq)

\* A step of reset_and_build_tree with bodies.
RebuildStep ==
    /\ world # <<>> /\ world' = world
    /\ pc = "idle" /\ pc' = "idle" /\ ticks' = ticks
    /\ <<nodes', root', origin', inserted', sim_bounds'>>
          # <<nodes, root, origin, inserted, sim_bounds>>

C22_Effect ==
    /\ nodes' = FromScratch(Snapshot(world)).nodes
    /\ root' = 0
    /\ sim_bounds' = PaddedSquare({Snapshot(world)[e] : e \in Entities})

\* Any two states with the same inserted bodies have the same arena, root
\* and bounds.
C22_Function ==
    (Built /\ inserted # <<>>) =>
        /\ nodes = FromScratch(inserted).nodes
        /\ root = 0
        /\ sim_bounds = PaddedSquare(Bodies)

C22_Fresh == []C22_Function /\ [][RebuildStep => C22_Effect]_vars

\* A rebuild of three bodies after two integrations have moved the first.
C22_Witness ==
    /\ Built /\ Len(world) = 3 /\ inserted = Snapshot(world) /\ ticks = 2
    /\ world[1].position # OfVec(V(0, 0))
    /\ Len(nodes) >= 5

(***************************************************************************)
(* C23.  Claim: inserting into a Leaf whose stored position is not within  *)
(* squared distance 1e-4 of the new position appends exactly four Empty    *)
(* children, child i covering sub_quadrant(i) of the node's bounds,        *)
(* re-inserts the existing body and then the new body into the quadrants   *)
(* given by get_quadrant_index, and turns the node into an Internal node;  *)
(* consequently every Internal node of a tree built by reset and inserts   *)
(* has all four child slots present.                                       *)
(***************************************************************************)
\* An insert that returns, having come to rest at a Leaf stored elsewhere.
C23_SplitStep ==
    /\ Built /\ origin' = "reset" /\ Len(inserted') = Len(inserted) + 1
    /\ LET b == inserted'[Len(inserted')]
           j == Land(nodes, root, b.position)
       IN  /\ IsLeaf(At(nodes, j))
           /\ ~SameLocation(At(nodes, j).kind.position, b.position)

C23_SplitEffect ==
    LET b == inserted'[Len(inserted')]
        j == Land(nodes, root, b.position)
        old == At(nodes, j)
        n == Len(nodes)
        existing_index == get_quadrant_index(old.bounds, old.kind.position)
        new_index == get_quadrant_index(old.bounds, b.position)
        existing_leaf == At(nodes', Land(nodes', n + existing_index, old.kind.position))
        new_leaf == At(nodes', Land(nodes', n + new_index, b.position))
    IN  /\ At(nodes', j).kind = [tag |-> "Internal",
                                 children |-> <<n, n + 1, n + 2, n + 3>>]
        /\ At(nodes', j).bounds = old.bounds
        /\ Len(nodes') >= n + 4 /\ (Len(nodes') - n) % 4 = 0
        /\ existing_index # new_index => Len(nodes') = n + 4
        /\ existing_index = new_index => IsInternal(At(nodes', n + new_index))
        /\ \A i \in 0..3 :
              /\ At(nodes', n + i).bounds = sub_quadrant(old.bounds, i)
              /\ i \notin {existing_index, new_index} =>
                    /\ IsEmpty(At(nodes', n + i))
                    /\ At(nodes', n + i).mass = R(0)
        /\ existing_leaf.kind = old.kind /\ existing_leaf.mass = old.mass
        /\ new_leaf.kind = [tag |-> "Leaf", entity |-> b.entity,
                            position |-> b.position]
        /\ new_leaf.mass = b.mass

C23_AllSlots ==
    Built => \A i \in InternalNodes : \A k \in 1..4 :
        At(nodes, i).kind.children[k] \in Indices(nodes)

C23_Subdivide == []C23_AllSlots /\ [][C23_SplitStep => C23_SplitEffect]_vars

\* One subdivision: an Internal root over two leaves and two Empty nodes.
C23_Witness ==
    /\ Built /\ Len(inserted) = 2 /\ Len(nodes) = 5 /\ IsInternal(At(nodes, 0))
    /\ Cardinality({i \in 1..4 : IsLeaf(At(nodes, i))}) = 2
    /\ Cardinality({i \in 1..4 : IsEmpty(At(nodes, i))}) = 2

(***************************************************************************)
(* C24.  Claim: in the boxed tree of main.rs (Quadtree::new /              *)
(* BhNode::insert), after building from any list of bodies, every Internal *)
(* node's total_mass equals the sum of the masses of the leaves below it   *)
(* and its center_of_mass equals the mass-weighted average of those        *)
(* leaves' positions, including when two bodies have positions within      *)
(* squared distance 1e-4 of each other.                                    *)
(***************************************************************************)
RECURSIVE BhLeafMass(_)
BhLeafMass(node) ==
    CASE node.tag = "Empty" -> R(0)
      [] node.tag = "Leaf" -> node.mass
      [] node.tag = "Internal" ->
            RAdd(RAdd(BhLeafMass(node.children[1]), BhLeafMass(node.children[2])),
                 RAdd(BhLeafMass(node.children[3]), BhLeafMass(node.children[4])))

RECURSIVE BhLeafMoment(_)
BhLeafMoment(node) ==
    CASE node.tag = "Empty" -> ZERO
      [] node.tag = "Leaf" -> VMul(node.pos, node.mass)
      [] node.tag = "Internal" ->
            VAdd(VAdd(BhLeafMoment(node.children[1]), BhLeafMoment(node.children[2])),
                 VAdd(BhLeafMoment(node.children[3]), BhLeafMoment(node.children[4])))

RECURSIVE BhConsistent(_)
BhConsistent(node) ==
    node.tag = "Internal" =>
        /\ node.total_mass = BhLeafMass(node)
        /\ node.center_of_mass = VDiv(BhLeafMoment(node), BhLeafMass(node))
        /\ \A k \in 1..4 : BhConsistent(node.children[k])

\* Quadtree::new has returned.
BoxedBuilt == pc \in {"step_forces", "step_integrate"}

C24_BoxedAggregates == BoxedBuilt => BhConsistent(tree.root)

(***************************************************************************)
(* C25.  Claim: after reset and any sequence of inserts the arena is a     *)
(* well-formed tree: root is Some(0), every child index stored in an       *)
(* Internal node is in range and strictly greater than its parent's index, *)
(* every node other than the root is the child of exactly one Internal     *)
(* node, every node is reachable from the root, and the arena length       *)
(* equals 1 + 4 * (number of Internal nodes).                              *)
(***************************************************************************)
\* The child slots that name node c.
SlotsNaming(c) ==
    {<<i, k>> \in InternalNodes \X (1..4) : At(nodes, i).kind.children[k] = c}

RECURSIVE ReachableFrom(_)
ReachableFrom(i) ==
    {i} \cup UNION {ReachableFrom(c) : c \in
                      IF IsInternal(At(nodes, i)) THEN Present(At(nodes, i)) ELSE {}}

C25_WellFormed ==
    origin = "reset" =>
        /\ root = 0
        /\ \A i \in InternalNodes : \A k \in 1..4 :
              /\ At(nodes, i).kind.children[k] \in Indices(nodes)
              /\ At(nodes, i).kind.children[k] > i
        /\ SlotsNaming(0) = {}
        /\ \A c \in Indices(nodes) \ {0} : Cardinality(SlotsNaming(c)) = 1
        /\ ReachableFrom(0) = Indices(nodes)
        /\ Len(nodes) = 1 + 4 * Cardinality(InternalNodes)

\* Two subdivisions: nine nodes, the root and one of its children Internal.
C25_Witness ==
    /\ Built /\ Len(inserted) = 3 /\ Len(nodes) = 9
    /\ Cardinality(InternalNodes) = 2
    /\ \E i \in InternalNodes : i > 0 /\ Cardinality(SlotsNaming(i)) = 1

(***************************************************************************)
(* C26.  Claim: when every inserted position lies inside the root bounds   *)
(* (as reset_and_build_tree guarantees), every Leaf's stored position lies *)
(* inside the closed bounds of its own node, and following                 *)
(* get_quadrant_index of that position from the root down leads to         *)
(* exactly that leaf.                                                      *)
(***************************************************************************)
AllInside == \A b \in Bodies : Inside(At(nodes, root).bounds, b.position)

C26_InOwnBounds ==
    (Built /\ AllInside) =>
        \A i \in LeafIndices :
            /\ Inside(At(nodes, i).bounds, StoredAt(i))
            /\ Land(nodes, root, StoredAt(i)) = i

\* Three bodies inside the root square, subdivided twice, one of them
\* stored on the border of its leaf's region.
C26_Witness ==
    /\ Built /\ AllInside /\ Len(inserted) = 3 /\ Len(nodes) >= 9
    /\ Cardinality(LeafIndices) = 3
    /\ \E i \in LeafIndices : StoredAt(i) \in Corners(At(nodes, i).bounds)

(***************************************************************************)
(* C27.  Claim: mass is conserved by the build: after reset and any        *)
(* sequence of inserts, the root node's mass (whether the root is a Leaf   *)
(* or an Internal node) equals the sum of the masses of all bodies         *)
(* inserted since the reset, merged bodies included, and equals the sum of *)
(* the masses of all Leaf nodes in the arena.                              *)
(***************************************************************************)
RECURSIVE MassFrom(_, _)
MassFrom(seq, k) ==
    IF k > Len(seq) THEN R(0) ELSE RAdd(seq[k].mass, MassFrom(seq, k + 1))

C27_MassConserved ==
    Built =>
        /\ At(nodes, root).mass = MassFrom(inserted, 1)
        /\ At(nodes, root).mass = LeafMass(nodes, LeafIndices)

\* Three bodies in two leaves below an Internal root: one has been merged.
C27_Witness ==
    /\ Built /\ Len(inserted) = 3 /\ IsInternal(At(nodes, root))
    /\ Cardinality(LeafIndices) = 2
    /\ At(nodes, root).mass = MassFrom(inserted, 1)

====
